---- MODULE Spec2Model ----
(***************************************************************************)
(* Model of the flashcard application (python-tango): the word collection, *)
(* the genre tree of the left panel, the study controller of the main      *)
(* window (MainPanel), the word-list window and the JSON word repository.  *)
(*                                                                         *)
(* Python values are tagged records [t |-> type, v |-> payload]; a string  *)
(* is the sequence of its characters; a dict key that is missing has the   *)
(* tag "absent".                                                           *)
(***************************************************************************)
EXTENDS Integers, Sequences, FiniteSets, TLC

VARIABLES
    words,            \* MainPanel.words (shared with the list window)
    current_word,     \* MainPanel.current_word (None or a WordItem)
    current_index,    \* MainPanel.current_index
    active_parent,    \* MainPanel.active_parent ("" or "g:<genre>")
    cursor_in_parent, \* MainPanel.cursor_in_parent
    suspend_select,   \* MainPanel._suspend_select
    idle,             \* pending after_idle callbacks of the Tk root
    right_word,       \* content of RightPanel.word_area
    right_meaning,    \* content of RightPanel.meaning_area
    left,             \* LeftPanel indices and selection
    listed,           \* WordListWindow.tree of a list window (None while it is not open)
    last_op,          \* history: the handler that ran last and its input
    changes,          \* history: how many times the session changed and saved the list
    fs,               \* repository: the files of the data directory
    save_pc,          \* repository: position inside WordRepository.save
    save_doc,         \* repository: the text save is writing
    save_old,         \* repository: target content when save started
    mem,              \* repository: the in-memory collection of the session
    load_out,         \* repository: outcome of the last load()
    reported,         \* repository: what save() told its caller or a log
    mix,              \* renderer: insert_mixed_text on a plain string
    gt                \* genre tree: GenreTreePane.rebuild and the collected rows

vars == <<words, current_word, current_index, active_parent, cursor_in_parent,
          suspend_select, idle, right_word, right_meaning, left, listed,
          last_op, changes, fs, save_pc, save_doc, save_old, mem, load_out,
          reported, mix, gt>>

ctl_vars == <<words, current_word, current_index, active_parent,
              cursor_in_parent, suspend_select, idle, right_word,
              right_meaning, left, listed, last_op>>

repo_vars == <<fs, save_pc, save_doc, save_old, mem, load_out, reported>>

(***************************************************************************)
(* Bounds of the model.                                                    *)
(***************************************************************************)
MaxWords == 3
MaxChanges == 2

(***************************************************************************)
(* Python values.                                                          *)
(***************************************************************************)
Str(s) == [t |-> "str", v |-> s]
List(xs) == [t |-> "list", v |-> xs]
Absent == [t |-> "absent", v |-> <<>>]

IsStr(x) == x.t = "str"
IsList(x) == x.t = "list"

\* bool(x) for the values a dict.get() can return.
Truthy(x) ==
    CASE x.t = "absent" -> FALSE
      [] x.t = "null" -> FALSE
      [] x.t = "bool" -> x.v = <<"True">>
      [] x.t = "int" -> x.v # <<"0">>
      [] OTHER -> x.v # <<>>

\* d.get(key, default) on a value already looked up.
GetOr(x, default) == IF x.t = "absent" THEN default ELSE x

Min(a, b) == IF a < b THEN a ELSE b
Max(a, b) == IF a > b THEN a ELSE b

\* Python's % on a positive modulus (TLA+ % agrees: the result is in 0..k-1).
PyMod(a, k) == a % k

(***************************************************************************)
(* Word items and text runs.                                               *)
(***************************************************************************)
Run(text, fg) ==
    [text |-> text, fg |-> fg, bg |-> Absent, bold |-> Absent,
     italic |-> Absent, underline |-> Absent]

Item(w, m, g, wr, mr) ==
    [word |-> w, meaning |-> m, genre |-> g, word_runs |-> wr,
     meaning_runs |-> mr]

NoneVal == [some |-> FALSE, item |-> Item(Absent, Absent, Absent, Absent, Absent)]
Some(it) == [some |-> TRUE, item |-> it]

(***************************************************************************)
(* Code points of the characters the model uses, for sorted() on strings.  *)
(***************************************************************************)
Ord(ch) ==
    CASE ch = " " -> 32
      [] ch = "!" -> 33
      [] ch = "(" -> 40
      [] ch = ")" -> 41
      [] ch = "/" -> 47
      [] ch = "?" -> 63
      [] ch = "a" -> 97
      [] ch = "b" -> 98
      [] ch = "m" -> 109
      [] ch = "x" -> 120
      [] ch = "y" -> 121
      [] ch = "U+5206" -> 20998
      [] ch = "U+672A" -> 26410
      [] ch = "U+985E" -> 39006
      [] OTHER -> 65533

\* s < t for Python strings (lexicographic by code point).
RECURSIVE StrLess(_, _)
StrLess(s, t) ==
    IF t = <<>> THEN FALSE
    ELSE IF s = <<>> THEN TRUE
    ELSE IF Ord(Head(s)) # Ord(Head(t)) THEN Ord(Head(s)) < Ord(Head(t))
    ELSE StrLess(Tail(s), Tail(t))

\* sorted(keys) for a set of distinct strings.
RECURSIVE SortedStrs(_)
SortedStrs(S) ==
    IF S = {} THEN <<>>
    ELSE LET lo == CHOOSE s \in S : \A u \in S \ {s} : StrLess(s, u)
         IN <<lo>> \o SortedStrs(S \ {lo})

(***************************************************************************)
(* LeftPanel: the genre tree shown as lines of a Text widget.              *)
(***************************************************************************)
\* "(未分類)", the key of the entries without a genre.
Uncategorized == <<"(", "U+672A", "U+5206", "U+985E", ")">>

Gid(genre) == <<"g:">> \o genre
Wid(idx) == <<"w:", idx>>
NoIid == <<>>

IsWid(iid) == iid # <<>> /\ Head(iid) = "w:"
IsGid(iid) == iid # <<>> /\ Head(iid) = "g:"
WidIndex(iid) == iid[2]

\* A faulty variant of GenreKey: only a missing genre falls back on the
\* uncategorized key, an empty one keeps its own group.
GenreKeyNoDefault(it) == IF IsStr(it.genre) THEN it.genre.v ELSE Uncategorized

\* it.get("genre") or "(未分類)"
GenreKey(it) == IF Truthy(it.genre) THEN it.genre.v ELSE Uncategorized

\* The value bound by a singleton set: an intermediate result that is
\* computed once and then used by name.
The(S) == CHOOSE x \in S : TRUE

\* A faulty variant of GroupMembers: the items of a genre from the last to the
\* first.
GroupMembersDescending(items, genre) ==
    The({ [p \in 1..Cardinality(at) |->
              Wid((CHOOSE i \in at : Cardinality({j \in at : j > i}) = p - 1) - 1)]
          : at \in {{i \in 1..Len(items) : GenreKey(items[i]) = genre}} })

\* grouped[genre]: the indices (0-based) of the items of a genre, in list order.
GroupMembers(items, genre) ==
    The({ [p \in 1..Cardinality(at) |->
              Wid((CHOOSE i \in at : Cardinality({j \in at : j < i}) = p - 1) - 1)]
          : at \in {{i \in 1..Len(items) : GenreKey(items[i]) = genre}} })

\* The words of all groups in display order (the order of the order counter).
RECURSIVE DisplayOrder(_, _)
DisplayOrder(order, g2w) ==
    IF order = <<>> THEN <<>>
    ELSE g2w[Tail(Head(order))] \o DisplayOrder(Tail(order), g2w)

PositionIn(seq, x) ==
    IF \E k \in 1..Len(seq) : seq[k] = x
    THEN (CHOOSE k \in 1..Len(seq) : seq[k] = x /\ \A j \in 1..(k - 1) : seq[j] # x) - 1
    ELSE -1

Contains(seq, x) == \E k \in 1..Len(seq) : seq[k] = x

\* A faulty variant of SelectRow: the highlighted row is also moved to the
\* head of its group.
SelectRowToHead(lp, iid) ==
    IF Contains(lp.rows, iid)
    THEN [lp EXCEPT !.sel = iid,
                    !.genre_to_words =
                        [g \in DOMAIN @ |->
                            IF Contains(@[g], iid)
                            THEN <<iid>> \o SelectSeq(@[g], LAMBDA w : w # iid)
                            ELSE @[g]]]
    ELSE lp

\* LeftPanel._select_by_iid(iid, notify=False): move the highlighted row.
SelectRow(lp, iid) ==
    IF Contains(lp.rows, iid) THEN [lp EXCEPT !.sel = iid] ELSE lp

\* LeftPanel.rebuild(items)
Rebuild(items0) ==
    The({ The({ The({ The({ IF built.rows = <<>> THEN built
                      ELSE SelectRow(built, built.rows[1])
                      : built \in
                        {[genre_order |-> [k \in 1..Len(order) |-> Gid(order[k])],
                          genre_to_words |-> g2w,
                          word_to_genre |->
                              [i \in 1..Len(items) |-> Gid(GenreKey(items[i]))],
                          rows |-> DisplayOrder([k \in 1..Len(order) |-> Gid(order[k])],
                                                g2w),
                          sel |-> NoIid]} })
                : order \in {SortedStrs(DOMAIN g2w)} })
          : g2w \in {[g \in {GenreKey(items[i]) : i \in 1..Len(items)} |->
                         GroupMembers(items, g)]} })
      : items \in {items0} })

\* _TreeAdapter.get_children(iid)
GetChildren(lp, iid) ==
    IF iid = <<>> THEN lp.genre_order
    ELSE IF IsGid(iid)
         THEN (IF Tail(iid) \in DOMAIN lp.genre_to_words
               THEN lp.genre_to_words[Tail(iid)] ELSE <<>>)
         ELSE <<>>

\* _TreeAdapter.parent(iid)
TreeParent(lp, iid) ==
    IF IsWid(iid)
    THEN (IF WidIndex(iid) + 1 \in DOMAIN lp.word_to_genre
          THEN lp.word_to_genre[WidIndex(iid) + 1] ELSE <<>>)
    ELSE <<>>

\* The order counter _TreeAdapter.index returns for a row it does not know.
UnknownIndex == 1000000

\* _TreeAdapter.index(iid): the order counter of a row.
TreeIndex(lp, iid) ==
    IF Contains(lp.rows, iid) THEN PositionIn(lp.rows, iid) ELSE UnknownIndex

\* _TreeAdapter.selection()
TreeSelection(lp) == IF lp.sel = NoIid THEN <<>> ELSE <<lp.sel>>

\* ws.sort(key=t.index): a stable sort of the rows by their order counter.
\* The row at place p is the one with p - 1 rows before it in (key, place) order.
SortByIndex(lp, ws0) ==
    The({ The({ [p \in 1..Len(ws) |->
                    ws[CHOOSE k \in 1..Len(ws) :
                          Cardinality({j \in 1..Len(ws) :
                              \/ key[j] < key[k]
                              \/ key[j] = key[k] /\ j < k}) = p - 1]]
                : key \in {[k \in 1..Len(ws) |-> TreeIndex(lp, ws[k])]} })
          : ws \in {ws0} })

\* [c for c in t.get_children(parent) if c.startswith("w:")] sorted by t.index
WordChildren(lp0, parent0) ==
    The({ SortByIndex(lp, SelectSeq(GetChildren(lp, parent), IsWid))
          : lp \in {lp0}, parent \in {parent0} })

(***************************************************************************)
(* AddWordDialog: what the dialog hands to on_submit.  A Text widget holds *)
(* a sequence of characters, each with the fg:: tag the user gave it (""   *)
(* for none).                                                              *)
(***************************************************************************)
Red == <<"r", "e", "d">>
Blue == <<"b", "l", "u", "e">>

Ch(c, fg) == [ch |-> c, fg |-> fg]

IsSpace(c) == c \in {" ", "\n", "\t"}

\* str.strip()
RECURSIVE LStrip(_)
LStrip(s) == IF s # <<>> /\ IsSpace(Head(s)) THEN LStrip(Tail(s)) ELSE s

RECURSIVE RStrip(_)
RStrip(s) ==
    IF s # <<>> /\ IsSpace(s[Len(s)]) THEN RStrip(SubSeq(s, 1, Len(s) - 1)) ELSE s

Strip(s) == RStrip(LStrip(s))

\* txt.get("1.0", "end-1c")
WidgetText(txt) == [k \in 1..Len(txt) |-> txt[k].ch]

\* AddWordDialog._submit.collect_runs: one run per maximal stretch of one colour.
RECURSIVE CollectFrom(_, _, _, _)
CollectFrom(txt, i, cur_fg, buf) ==
    LET flushed == IF buf = <<>> THEN <<>>
                   ELSE <<Run(Str(buf), IF cur_fg = <<>> THEN Absent ELSE Str(cur_fg))>>
    IN IF i > Len(txt) THEN flushed
       ELSE IF txt[i].fg # cur_fg
            THEN flushed \o CollectFrom(txt, i + 1, txt[i].fg, <<txt[i].ch>>)
            ELSE CollectFrom(txt, i + 1, cur_fg, Append(buf, txt[i].ch))

CollectRuns(txt) == IF txt = <<>> THEN <<>> ELSE CollectFrom(txt, 1, <<>>, <<>>)

\* The item built by AddWordDialog._submit from the three input widgets.
SubmitItem(dlg) ==
    LET w_runs == CollectRuns(dlg.e_word)
        m_runs == CollectRuns(dlg.e_mean)
    IN Item(Str(Strip(WidgetText(dlg.e_word))),
            Str(Strip(WidgetText(dlg.e_mean))),
            Str(Strip(dlg.e_genre)),
            IF w_runs # <<>> THEN List(w_runs) ELSE Absent,
            IF m_runs # <<>> THEN List(m_runs) ELSE Absent)

\* on_submit is called only if (w or m or g or w_runs or m_runs).
Submits(dlg) ==
    LET it == SubmitItem(dlg)
    IN \/ it.word.v # <<>> \/ it.meaning.v # <<>> \/ it.genre.v # <<>>
       \/ it.word_runs.t = "list" \/ it.meaning_runs.t = "list"

\* AddWordDialog._build for an edit: the widgets as the dialog opens on the
\* entry initial, the plain strings inserted without any tag.
DialogFor(initial) ==
    [e_word |-> [k \in 1..Len(GetOr(initial.word, Str(<<>>)).v) |->
                    Ch(GetOr(initial.word, Str(<<>>)).v[k], <<>>)],
     e_mean |-> [k \in 1..Len(GetOr(initial.meaning, Str(<<>>)).v) |->
                    Ch(GetOr(initial.meaning, Str(<<>>)).v[k], <<>>)],
     e_genre |-> GetOr(initial.genre, Str(<<>>)).v]

\* What the user may leave in the dialog when pressing the save button.
DialogInputs ==
    { [e_word |-> <<Ch("a", <<>>)>>, e_mean |-> <<>>, e_genre |-> <<>>],
      [e_word |-> <<Ch("b", Red)>>, e_mean |-> <<Ch("m", Blue)>>, e_genre |-> <<"x">>],
      [e_word |-> <<>>, e_mean |-> <<Ch("m", Blue)>>, e_genre |-> <<"x">>] }

(***************************************************************************)
(* RightPanel: what the two text areas show.  kind tells which call wrote  *)
(* the area: the empty-group placeholder, a blank, the "???" mask or the   *)
(* text of an entry; via tells whether plain text or runs were rendered.   *)
(***************************************************************************)
NoWordsText == <<"(", "no", "words", ")">>
HiddenText == <<"?", "?", "?">>

Shown(kind, s) == [kind |-> kind, via |-> "plain", text |-> s, frags |-> <<>>]

\* str(text_or_runs or "") for a looked-up dict value
TextOf(x) == IF x.t = "absent" \/ ~Truthy(x) THEN <<>> ELSE x.v

\* MainPanel._render_runs: one fragment per run whose text is a non-empty
\* string.  A fragment is the inserted text and the style its tags give it:
\* the only tag is the foreground colour of the run.
RECURSIVE RunFragments(_)
RunFragments(runs) ==
    IF runs = <<>> THEN <<>>
    ELSE LET seg == Head(runs)
             frag == [text |-> seg.text.v,
                      fg |-> IF IsStr(seg.fg) /\ seg.fg.v # <<>> THEN seg.fg.v ELSE <<>>,
                      bg |-> <<>>, bold |-> FALSE, italic |-> FALSE,
                      underline |-> FALSE]
         IN (IF IsStr(seg.text) /\ seg.text.v # <<>> THEN <<frag>> ELSE <<>>)
            \o RunFragments(Tail(runs))

RenderRuns(runs) ==
    [kind |-> "entry", via |-> "runs", text |-> <<>>, frags |-> RunFragments(runs)]

\* isinstance(runs, list) and runs
HasRuns(x) == IsList(x) /\ x.v # <<>>

(***************************************************************************)
(* MainPanel.  Every method maps the controller state (a record of the      *)
(* controller variables) to the state it leaves.  A method binds its        *)
(* argument and its intermediate results with The, statement by statement.  *)
(***************************************************************************)
Cur ==
    [words |-> words, current_word |-> current_word,
     current_index |-> current_index, active_parent |-> active_parent,
     cursor_in_parent |-> cursor_in_parent, suspend_select |-> suspend_select,
     idle |-> idle, right_word |-> right_word, right_meaning |-> right_meaning,
     left |-> left]

InRange(st, i) == 0 <= i /\ i < Len(st.words)

\* The display an item gets from the runs-first rendering of its word.
WordDisplay(it) ==
    IF HasRuns(it.word_runs) THEN RenderRuns(it.word_runs.v)
    ELSE Shown("entry", TextOf(it.word))

\* MainPanel._update_right_pane as run from the idle queue (nothing else pending).
UpdateRightPaneIdle(st0) ==
    The({ IF ~InRange(st, st.current_index)
          THEN [st EXCEPT !.right_word = Shown("blank", <<>>),
                          !.right_meaning = Shown("blank", <<>>)]
          ELSE [st EXCEPT !.right_word = WordDisplay(st.words[st.current_index + 1]),
                          !.right_meaning = Shown("hidden", HiddenText)]
          : st \in {st0} })

\* widget.update_idletasks(): run the pending after_idle callbacks.
RunIdle(st0) ==
    The({ IF "update" \in st.idle
          THEN UpdateRightPaneIdle(
                   [st EXCEPT !.idle = {},
                              !.suspend_select = IF "lift" \in st.idle THEN FALSE ELSE @])
          ELSE [st EXCEPT !.idle = {},
                          !.suspend_select = IF "lift" \in st.idle THEN FALSE ELSE @]
          : st \in {st0} })

\* RightPanel.set_word / set_meaning: insert_mixed_text, then _adjust_text_size,
\* whose update_idletasks() runs the idle callbacks.
SetWord(st0, shown) ==
    The({ RunIdle([st EXCEPT !.right_word = shown]) : st \in {st0} })

SetMeaning(st0, shown) ==
    The({ RunIdle([st EXCEPT !.right_meaning = shown]) : st \in {st0} })

\* The word of an item, runs first (next_word, prev_word, _update_right_pane).
ShowWordRunsFirst(st0, it0) ==
    The({ IF HasRuns(it.word_runs)
          THEN [st EXCEPT !.right_word = RenderRuns(it.word_runs.v)]
          ELSE SetWord(st, Shown("entry", TextOf(it.word)))
          : st \in {st0}, it \in {it0} })

\* MainPanel._update_right_pane
UpdateRightPane(st0) ==
    The({ IF ~InRange(st, st.current_index)
          THEN SetMeaning(SetWord(st, Shown("blank", <<>>)), Shown("blank", <<>>))
          ELSE SetMeaning(ShowWordRunsFirst(st, st.words[st.current_index + 1]),
                          Shown("hidden", HiddenText))
          : st \in {st0} })

\* The placeholder of an empty group.
ShowNoWords(st) ==
    SetMeaning(SetWord(st, Shown("placeholder", NoWordsText)), Shown("blank", <<>>))

\* The group _siblings_words falls back on when active_parent is unset: the
\* parent of the selected row (the row itself if it is a genre), else the
\* first genre.
GuessParent(lp) ==
    IF TreeSelection(lp) # <<>>
    THEN (IF IsWid(TreeSelection(lp)[1]) THEN TreeParent(lp, TreeSelection(lp)[1])
          ELSE TreeSelection(lp)[1])
    ELSE IF GetChildren(lp, <<>>) # <<>> THEN GetChildren(lp, <<>>)[1] ELSE <<>>

\* MainPanel._siblings_words: the rows of the active group, and the state
\* (active_parent is inferred when it is unset).
SiblingsWords(st0) ==
    The({ The({ [ws |-> IF parent = <<>> THEN <<>> ELSE WordChildren(st.left, parent),
                 st |-> [st EXCEPT !.active_parent = parent]]
                : parent \in {IF st.active_parent # <<>> THEN st.active_parent
                              ELSE GuessParent(st.left)} })
          : st \in {st0} })

\* The tree selection sync at the end of _apply_cursor / next_word / prev_word.
SyncTree(st0, iid) ==
    The({ [st EXCEPT !.suspend_select = TRUE,
                     !.left = SelectRow(st.left, iid),
                     !.idle = @ \cup {"lift"}]
          : st \in {st0} })

\* MainPanel._apply_cursor
ApplyCursor(st0) ==
    The({ IF r.ws = <<>>
             \/ ~(0 <= r.st.cursor_in_parent /\ r.st.cursor_in_parent < Len(r.ws))
          THEN r.st
          ELSE The({ SyncTree(
                       SetMeaning(
                         SetWord([r.st EXCEPT !.current_index = WidIndex(iid),
                                              !.current_word =
                                                  Some(r.st.words[WidIndex(iid) + 1])],
                                 Shown("entry",
                                       TextOf(r.st.words[WidIndex(iid) + 1].word))),
                         Shown("hidden", HiddenText)),
                       iid)
                     : iid \in {r.ws[r.st.cursor_in_parent + 1]} })
          : r \in {SiblingsWords(st0)} })

\* A faulty variant of NextCursor: always back to the head.
NextCursorHead(cursor, k) == 0

\* The cursor after next_word: the head when unset, else +1 modulo the size.
NextCursor(cursor, k) ==
    IF cursor < 0 \/ cursor >= k THEN 0 ELSE PyMod(cursor + 1, k)

\* A faulty variant of PrevCursor: a cursor inside the group does not move.
PrevCursorStay(cursor, k) == IF cursor < 0 \/ cursor >= k THEN k - 1 ELSE cursor

\* The cursor after prev_word: the tail when unset, else -1 modulo the size.
PrevCursor(cursor, k) ==
    IF cursor < 0 \/ cursor >= k THEN k - 1 ELSE PyMod(cursor - 1, k)

\* The common body of next_word and prev_word once the cursor is chosen.
MoveTo(st0, ws, cursor0) ==
    The({ SyncTree(
            SetMeaning(
              ShowWordRunsFirst([st EXCEPT !.cursor_in_parent = cursor0,
                                           !.current_index = WidIndex(iid),
                                           !.current_word =
                                               Some(st.words[WidIndex(iid) + 1])],
                                st.words[WidIndex(iid) + 1]),
              Shown("hidden", HiddenText)),
            iid)
          : st \in {st0}, iid \in {ws[cursor0 + 1]} })

\* MainPanel.next_word
NextWord(st0) ==
    The({ IF r.ws = <<>> THEN ShowNoWords(r.st)
          ELSE MoveTo(r.st, r.ws, NextCursor(r.st.cursor_in_parent, Len(r.ws)))
          : r \in {SiblingsWords(st0)} })

\* MainPanel.prev_word
PrevWord(st0) ==
    The({ IF r.ws = <<>> THEN ShowNoWords(r.st)
          ELSE MoveTo(r.st, r.ws, PrevCursor(r.st.cursor_in_parent, Len(r.ws)))
          : r \in {SiblingsWords(st0)} })

\* MainPanel.show_meaning (the caller checks current_word first)
ShowMeaning(st0) ==
    The({ IF HasRuns(st.current_word.item.meaning_runs)
          THEN [st EXCEPT !.right_meaning =
                              RenderRuns(st.current_word.item.meaning_runs.v)]
          ELSE SetMeaning(st, Shown("entry", TextOf(st.current_word.item.meaning)))
          : st \in {st0} })

\* MainPanel._on_tree_select_iid, the "w:" branch (a word row was selected).
OnTreeSelectWord(st0, iid0) ==
    The({ The({ UpdateRightPane(
                  [s2 EXCEPT !.current_index = WidIndex(iid)])
                : s2 \in {ApplyCursor(
                      [st EXCEPT !.active_parent = TreeParent(st.left, iid),
                                 !.cursor_in_parent =
                                     PositionIn(WordChildren(st.left,
                                                    TreeParent(st.left, iid)), iid)])} })
          : st \in {st0}, iid \in {iid0} })

\* The row _on_tree_select_iid takes current_index from after _apply_cursor.
RowAfterApply(st, ws) ==
    IF TreeSelection(st.left) # <<>> /\ IsWid(TreeSelection(st.left)[1])
    THEN TreeSelection(st.left)[1]
    ELSE ws[st.cursor_in_parent + 1]

\* A faulty variant of OnTreeSelectGroup: the group becomes the active one and
\* nothing else happens.
OnTreeSelectGroupOnly(st0, iid0, pick) == [st0 EXCEPT !.active_parent = iid0]

\* MainPanel._on_tree_select_iid, the "g:" branch (a genre row was selected);
\* pick is the value drawn by random.SystemRandom().randrange(len(ws)).
OnTreeSelectGroup(st0, iid0, pick) ==
    The({ The({ IF ws # <<>>
                THEN The({ [s2 EXCEPT !.current_index = WidIndex(RowAfterApply(s2, ws)),
                                      !.idle = @ \cup {"update"}]
                           : s2 \in {ApplyCursor([st EXCEPT !.active_parent = iid,
                                                            !.cursor_in_parent = pick])} })
                ELSE ShowNoWords([st EXCEPT !.active_parent = iid,
                                            !.cursor_in_parent = -1])
                : ws \in {WordChildren(st.left, iid)} })
          : st \in {st0}, iid \in {iid0} })

\* A faulty variant of MergeEdit: the submitted item replaces the old one, as
\* in the on_submit of the older list window (wordlistwindow.py).
MergeEditReplace(current, updated) == updated

\* The item an edit stores: the submitted fields over the old ones, the old
\* runs kept when the dialog supplies none (on_submit of both edit paths).
MergeEdit(current, updated) ==
    Item(GetOr(updated.word, GetOr(current.word, Str(<<>>))),
         GetOr(updated.meaning, GetOr(current.meaning, Str(<<>>))),
         GetOr(updated.genre, GetOr(current.genre, Str(<<>>))),
         IF IsList(updated.word_runs) THEN updated.word_runs
         ELSE IF current.word_runs.t # "absent" THEN current.word_runs ELSE Absent,
         IF IsList(updated.meaning_runs) THEN updated.meaning_runs
         ELSE IF current.meaning_runs.t # "absent" THEN current.meaning_runs ELSE Absent)

\* MainPanel.open_add_window.on_submit
AddSubmit(st0, item) ==
    The({ IF s1.active_parent = <<>> THEN s1
          ELSE The({ IF r.ws = <<>> THEN r.st
                     ELSE ApplyCursor([r.st EXCEPT !.cursor_in_parent =
                                          Max(Min(@, Len(r.ws) - 1), 0)])
                     : r \in {SiblingsWords(s1)} })
          : s1 \in {[st0 EXCEPT !.words = Append(@, item),
                                !.left = Rebuild(Append(st0.words, item))]} })

\* MainPanel._on_tree_edit_word.on_submit for the row idx
TreeEditSubmit(st0, idx0, updated) ==
    The({ The({ UpdateRightPane(
                  IF HasRuns(new_item.meaning_runs)
                  THEN [s3 EXCEPT !.right_meaning = RenderRuns(new_item.meaning_runs.v)]
                  ELSE SetMeaning(s3, Shown("entry", TextOf(new_item.meaning))))
                : s3 \in {ShowWordRunsFirst(
                      [st EXCEPT !.words[idx + 1] = new_item,
                                 !.suspend_select = TRUE,
                                 !.left = SelectRow(
                                     Rebuild([st.words EXCEPT ![idx + 1] = new_item]),
                                     Wid(idx)),
                                 !.current_index = idx,
                                 !.idle = @ \cup {"lift"},
                                 !.current_word = Some(new_item)],
                      new_item)} })
          : st \in {st0}, idx \in {idx0},
            new_item \in {MergeEdit(st0.words[idx0 + 1], updated)} })

\* The cursor on_changed gives the active group ws after the list changed.
CursorAfterChange(st, ws) ==
    IF ws = <<>> THEN -1
    ELSE IF InRange(st, st.current_index)
         THEN (IF Contains(ws, Wid(st.current_index))
               THEN PositionIn(ws, Wid(st.current_index))
               ELSE Min(st.cursor_in_parent, Len(ws) - 1))
         ELSE 0

\* MainPanel.open_list_window.on_changed
OnChanged(st0) ==
    The({ The({ IF s2.cursor_in_parent >= 0 THEN ApplyCursor(s2) ELSE s2
                : s2 \in {[s1 EXCEPT
                             !.cursor_in_parent =
                                 IF s1.active_parent = <<>> THEN @
                                 ELSE CursorAfterChange(s1, SiblingsWords(s1).ws),
                             !.idle = @ \cup {"lift"}]} })
          : s1 \in {[st0 EXCEPT !.suspend_select = TRUE,
                                !.left = Rebuild(st0.words)]} })

\* WordListWindow._on_edit.on_submit for the row idx
ListEditSubmit(st, idx, updated) ==
    OnChanged([st EXCEPT !.words[idx + 1] = MergeEdit(st.words[idx + 1], updated)])

SetMax(S) == CHOOSE m \in S : \A x \in S : x <= m

RemoveAt(seq, idx) ==
    [j \in 1..(Len(seq) - 1) |-> IF j <= idx THEN seq[j] ELSE seq[j + 1]]

SetMin(S) == CHOOSE m \in S : \A x \in S : m <= x

\* A faulty variant of DeleteIndices: the rows are deleted in ascending order,
\* so every delete shifts the rows still to be deleted.
RECURSIVE DeleteAscending(_, _)
DeleteAscending(ws0, idxs0) ==
    The({ IF idxs = {} THEN ws
          ELSE DeleteAscending(
                   IF 0 <= SetMin(idxs) /\ SetMin(idxs) < Len(ws)
                   THEN RemoveAt(ws, SetMin(idxs)) \o <<>> ELSE ws,
                   idxs \ {SetMin(idxs)})
          : ws \in {ws0}, idxs \in {idxs0} })

\* for idx in sorted(set(idxs), reverse=True): if 0 <= idx < len(ws): del ws[idx]
RECURSIVE DeleteIndices(_, _)
DeleteIndices(ws0, idxs0) ==
    The({ IF idxs = {} THEN ws
          ELSE DeleteIndices(
                   IF 0 <= SetMax(idxs) /\ SetMax(idxs) < Len(ws)
                   THEN RemoveAt(ws, SetMax(idxs)) \o <<>> ELSE ws,
                   idxs \ {SetMax(idxs)})
          : ws \in {ws0}, idxs \in {idxs0} })

\* WordListWindow._on_delete for the selected rows idxs
ListDelete(st, idxs) ==
    OnChanged([st EXCEPT !.words = DeleteIndices(st.words, idxs)])

\* MainPanel.__init__ / _create_widgets for a start with the list ws0.
StartUp(ws0, pick) ==
    The({ [s1 EXCEPT !.suspend_select = FALSE]
          : s1 \in { The({ IF GetChildren(s0.left, <<>>) = <<>> THEN s0
                           ELSE IF WordChildren(s0.left, GetChildren(s0.left, <<>>)[1]) = <<>>
                                THEN [s0 EXCEPT !.active_parent =
                                                    GetChildren(s0.left, <<>>)[1]]
                                ELSE ApplyCursor(
                                         [s0 EXCEPT !.active_parent =
                                                        GetChildren(s0.left, <<>>)[1],
                                                    !.cursor_in_parent = pick])
                           : s0 \in {[words |-> ws0, current_word |-> NoneVal,
                                      current_index |-> -1,
                                      active_parent |-> <<>>, cursor_in_parent |-> -1,
                                      suspend_select |-> FALSE, idle |-> {},
                                      right_word |-> Shown("blank", <<>>),
                                      right_meaning |-> Shown("hidden", HiddenText),
                                      left |-> Rebuild(ws0)]} }) } })

(***************************************************************************)
(* JSON text.  A document is the sequence of its tokens (white space left   *)
(* out); json.dump writes them and json.load reads them back or raises.     *)
(***************************************************************************)
Bool(b) == [t |-> "bool", v |-> IF b THEN <<"True">> ELSE <<"False">>]
Null == [t |-> "null", v |-> <<>>]
Number(digits) == [t |-> "int", v |-> digits]
\* A dict is the sequence of its (key, value) pairs in insertion order.
Dict(pairs) == [t |-> "dict", v |-> pairs]
Pair(key, val) == [k |-> <<key>>, val |-> val]

IsDict(x) == x.t = "dict"
IsBool(x) == x.t = "bool"

\* key in d
Has(d, key) == \E i \in 1..Len(d.v) : d.v[i].k = <<key>>

\* d.get(key): the value of the last pair with the key, Absent without one.
Get(d, key) ==
    IF Has(d, key)
    THEN d.v[CHOOSE i \in 1..Len(d.v) :
                /\ d.v[i].k = <<key>>
                /\ \A j \in (i + 1)..Len(d.v) : d.v[j].k # <<key>>].val
    ELSE Absent

Tok(kind, text) == [k |-> kind, s |-> text]
Punct(kind) == Tok(kind, <<>>)

\* json.dump(x): the tokens of a value.
RECURSIVE Dump(_), DumpElems(_, _), DumpMembers(_, _)
Dump(x0) ==
    The({ CASE x.t = "str" -> <<Tok("str", x.v)>>
            [] x.t = "int" -> <<Tok("int", x.v)>>
            [] x.t = "bool" -> <<Punct(IF x.v = <<"True">> THEN "true" ELSE "false")>>
            [] x.t = "null" -> <<Punct("null")>>
            [] x.t = "list" -> <<Punct("[")>> \o DumpElems(x.v, 1) \o <<Punct("]")>>
            [] x.t = "dict" -> <<Punct("{")>> \o DumpMembers(x.v, 1) \o <<Punct("}")>>
          : x \in {x0} })

DumpElems(xs, i) ==
    IF i > Len(xs) THEN <<>>
    ELSE (IF i > 1 THEN <<Punct(",")>> ELSE <<>>) \o Dump(xs[i]) \o DumpElems(xs, i + 1)

DumpMembers(ps, i) ==
    IF i > Len(ps) THEN <<>>
    ELSE (IF i > 1 THEN <<Punct(",")>> ELSE <<>>)
         \o <<Tok("str", ps[i].k), Punct(":")>> \o Dump(ps[i].val)
         \o DumpMembers(ps, i + 1)

\* json.load raises (JSONDecodeError).
ParseError == [ok |-> FALSE, val |-> Absent, next |-> 0]
Parsed(val, next) == [ok |-> TRUE, val |-> val, next |-> next]

\* The JSON value that starts at token i, and the place behind it.
RECURSIVE ParseValue(_, _), ParseElems(_, _, _), ParseMembers(_, _, _)
ParseValue(toks, i) ==
    IF i > Len(toks) THEN ParseError
    ELSE CASE toks[i].k = "str" -> Parsed(Str(toks[i].s), i + 1)
           [] toks[i].k = "int" -> Parsed(Number(toks[i].s), i + 1)
           [] toks[i].k = "true" -> Parsed(Bool(TRUE), i + 1)
           [] toks[i].k = "false" -> Parsed(Bool(FALSE), i + 1)
           [] toks[i].k = "null" -> Parsed(Null, i + 1)
           [] toks[i].k = "[" ->
                IF i + 1 <= Len(toks) /\ toks[i + 1].k = "]"
                THEN Parsed(List(<<>>), i + 2)
                ELSE ParseElems(toks, i + 1, <<>>)
           [] toks[i].k = "{" ->
                IF i + 1 <= Len(toks) /\ toks[i + 1].k = "}"
                THEN Parsed(Dict(<<>>), i + 2)
                ELSE ParseMembers(toks, i + 1, <<>>)
           [] OTHER -> ParseError

ParseElems(toks, i, acc) ==
    The({ IF ~r.ok \/ r.next > Len(toks) THEN ParseError
          ELSE IF toks[r.next].k = ","
               THEN ParseElems(toks, r.next + 1, Append(acc, r.val))
          ELSE IF toks[r.next].k = "]"
               THEN Parsed(List(Append(acc, r.val)), r.next + 1)
          ELSE ParseError
          : r \in {ParseValue(toks, i)} })

ParseMembers(toks, i, acc) ==
    IF i + 1 > Len(toks) \/ toks[i].k # "str" \/ toks[i + 1].k # ":" THEN ParseError
    ELSE The({ IF ~r.ok \/ r.next > Len(toks) THEN ParseError
               ELSE IF toks[r.next].k = ","
                    THEN ParseMembers(toks, r.next + 1,
                                      Append(acc, [k |-> toks[i].s, val |-> r.val]))
               ELSE IF toks[r.next].k = "}"
                    THEN Parsed(Dict(Append(acc, [k |-> toks[i].s, val |-> r.val])),
                                r.next + 1)
               ELSE ParseError
               : r \in {ParseValue(toks, i + 2)} })

\* json.load(f): the value of the whole text, or the error.
JsonLoad(toks) ==
    The({ IF r.ok /\ r.next = Len(toks) + 1 THEN r ELSE ParseError
          : r \in {ParseValue(toks, 1)} })

(***************************************************************************)
(* WordRepository.  The data directory holds the target file words.json,    *)
(* the temporary file words.json.tmp and the files load() moved aside.      *)
(***************************************************************************)
Missing == [exists |-> FALSE, toks |-> <<>>]
File(toks) == [exists |-> TRUE, toks |-> toks]

Present(p) == p.val.t # "absent"

\* The dict of a run / of an item as the session holds it: the keys it has.
RunDict(r) ==
    Dict(SelectSeq(<<[k |-> <<"text">>, val |-> r.text], [k |-> <<"fg">>, val |-> r.fg],
                     [k |-> <<"bg">>, val |-> r.bg], [k |-> <<"bold">>, val |-> r.bold],
                     [k |-> <<"italic">>, val |-> r.italic],
                     [k |-> <<"underline">>, val |-> r.underline]>>, Present))

RunsValue(x) ==
    IF IsList(x) THEN List([i \in 1..Len(x.v) |-> RunDict(x.v[i])] \o <<>>) ELSE x

ItemDict(it) ==
    Dict(SelectSeq(<<[k |-> <<"word">>, val |-> it.word],
                     [k |-> <<"meaning">>, val |-> it.meaning],
                     [k |-> <<"genre">>, val |-> it.genre],
                     [k |-> <<"word_runs">>, val |-> RunsValue(it.word_runs)],
                     [k |-> <<"meaning_runs">>, val |-> RunsValue(it.meaning_runs)]>>,
                   Present))

\* The list save() hands to json.dump.
WordsValue(ws) == List([i \in 1..Len(ws) |-> ItemDict(ws[i])] \o <<>>)

\* str(x) for the scalars a record of the file can carry.
PyStr(x) ==
    CASE x.t = "str" -> x.v
      [] x.t = "int" -> x.v
      [] x.t = "bool" -> IF x.v = <<"True">> THEN <<"T", "r", "u", "e">>
                         ELSE <<"F", "a", "l", "s", "e">>
      [] x.t = "null" -> <<"N", "o", "n", "e">>

\* load(): one element of a runs list; the attributes are copied if their
\* type is right.
CleanRun(r) ==
    [text |-> Get(r, "text"),
     fg |-> IF IsStr(Get(r, "fg")) THEN Get(r, "fg") ELSE Absent,
     bg |-> IF IsStr(Get(r, "bg")) THEN Get(r, "bg") ELSE Absent,
     bold |-> IF IsBool(Get(r, "bold")) THEN Get(r, "bold") ELSE Absent,
     italic |-> IF IsBool(Get(r, "italic")) THEN Get(r, "italic") ELSE Absent,
     underline |-> IF IsBool(Get(r, "underline")) THEN Get(r, "underline") ELSE Absent]

KeepsRun(r) == IsDict(r) /\ IsStr(Get(r, "text"))

\* load(): the runs of one key of a record, Absent when none is left.
CleanRuns(v0) ==
    IF ~IsList(v0) THEN Absent
    ELSE The({ IF kept = <<>> THEN Absent
               ELSE List([i \in 1..Len(kept) |-> CleanRun(kept[i])] \o <<>>)
               : kept \in {SelectSeq(v0.v, KeepsRun)} })

\* A faulty variant of LoadItem: the genre is kept whenever it is a string.
LoadItemAnyGenre(d) ==
    Item(Str(PyStr(GetOr(Get(d, "word"), Str(<<>>)))),
         Str(PyStr(GetOr(Get(d, "meaning"), Str(<<>>)))),
         IF IsStr(Get(d, "genre")) THEN Get(d, "genre") ELSE Absent,
         CleanRuns(Get(d, "word_runs")),
         CleanRuns(Get(d, "meaning_runs")))

\* load(): the item made of one record of the file.
LoadItem(d) ==
    Item(Str(PyStr(GetOr(Get(d, "word"), Str(<<>>)))),
         Str(PyStr(GetOr(Get(d, "meaning"), Str(<<>>)))),
         IF IsStr(Get(d, "genre")) /\ Get(d, "genre").v # <<>>
         THEN Get(d, "genre") ELSE Absent,
         CleanRuns(Get(d, "word_runs")),
         CleanRuns(Get(d, "meaning_runs")))

\* load(): the body of the try block for a parsed document.
LoadItems(raw0) ==
    The({ IF ~IsList(raw) THEN <<>>
          ELSE The({ [i \in 1..Len(ds) |-> LoadItem(ds[i])] \o <<>>
                     : ds \in {SelectSeq(raw.v, IsDict)} })
          : raw \in {IF IsDict(raw0) /\ Has(raw0, "words")
                     THEN Get(raw0, "words") ELSE raw0} })

\* load(): the try block; open() or json.load may raise.
LoadTry(file, readable) ==
    IF ~readable THEN [raised |-> TRUE, value |-> <<>>]
    ELSE The({ IF r.ok THEN [raised |-> FALSE, value |-> LoadItems(r.val)]
               ELSE [raised |-> TRUE, value |-> <<>>]
               : r \in {JsonLoad(file.toks)} })

\* A faulty variant of Load: without the except clause.
LoadNoExcept(f, readable, renamed) ==
    IF ~f.target.exists THEN [out |-> [raised |-> FALSE, value |-> <<>>], fs |-> f]
    ELSE [out |-> LoadTry(f.target, readable), fs |-> f]

\* WordRepository.load: the outcome for the caller and the directory it
\* leaves; renamed tells whether moving the bad file aside worked.
Load(f, readable, renamed) ==
    IF ~f.target.exists THEN [out |-> [raised |-> FALSE, value |-> <<>>], fs |-> f]
    ELSE The({ IF ~r.raised THEN [out |-> r, fs |-> f]
               ELSE [out |-> [raised |-> FALSE, value |-> <<>>],
                     fs |-> IF renamed
                            THEN [f EXCEPT !.bad = f.target, !.target = Missing]
                            ELSE f]
               : r \in {LoadTry(f.target, readable)} })

\* save(): tmp.open("w") creates or empties the temporary file.
OpenTmp(f) == [f EXCEPT !.tmp = File(<<>>)]

\* A faulty variant of WriteTmp: the text goes straight into the target.
WriteInPlace(f, toks) == [f EXCEPT !.target = File(toks)]

\* save(): json.dump has written the tokens toks into the temporary file.
WriteTmp(f, toks) == [f EXCEPT !.tmp = File(toks)]

\* save(): tmp.replace(self.path)
ReplaceTarget(f) == [f EXCEPT !.target = f.tmp, !.tmp = Missing]

\* WordRepository.save with every step working.
SaveAll(f, ws) == ReplaceTarget(WriteTmp(OpenTmp(f), Dump(WordsValue(ws))))

\* The sanitized form of a well-formed entry list: a genre only if it is a
\* non-empty string, runs only if one is left, the attributes of a run only
\* if their type is right.
SanitizedRun(r) ==
    [text |-> r.text,
     fg |-> IF IsStr(r.fg) THEN r.fg ELSE Absent,
     bg |-> IF IsStr(r.bg) THEN r.bg ELSE Absent,
     bold |-> IF IsBool(r.bold) THEN r.bold ELSE Absent,
     italic |-> IF IsBool(r.italic) THEN r.italic ELSE Absent,
     underline |-> IF IsBool(r.underline) THEN r.underline ELSE Absent]

TextIsStr(r) == IsStr(r.text)

SanitizedRuns(x) ==
    IF IsList(x) /\ SelectSeq(x.v, TextIsStr) # <<>>
    THEN List([i \in 1..Len(SelectSeq(x.v, TextIsStr)) |->
                  SanitizedRun(SelectSeq(x.v, TextIsStr)[i])] \o <<>>)
    ELSE Absent

Sanitized(ws) ==
    [i \in 1..Len(ws) |->
        Item(ws[i].word, ws[i].meaning,
             IF IsStr(ws[i].genre) /\ ws[i].genre.v # <<>> THEN ws[i].genre ELSE Absent,
             SanitizedRuns(ws[i].word_runs),
             SanitizedRuns(ws[i].meaning_runs))] \o <<>>

(***************************************************************************)
(* insert_mixed_text: a plain string goes into a Text widget character by   *)
(* character, each with the tag of its script.  A character is its code     *)
(* point.                                                                   *)
(***************************************************************************)
MaxText == 2

\* A faulty variant of is_japanese: the last half-width katakana is left out.
is_japanese_short(code) ==
    \/ 12352 <= code /\ code <= 12543
    \/ 19968 <= code /\ code <= 40959
    \/ 65382 <= code /\ code < 65437

\* MainPanel.is_japanese(ch), code = ord(ch):
\* 0x3040..0x30FF, 0x4E00..0x9FFF, 0xFF66..0xFF9D
is_japanese(code) ==
    \/ 12352 <= code /\ code <= 12543
    \/ 19968 <= code /\ code <= 40959
    \/ 65382 <= code /\ code <= 65437

(***************************************************************************)
(* GenreTreePane: the genre tree as a ttk.Treeview with nested nodes, and   *)
(* _collect_word_indices_under on a tree.  A node is known by its iid; kids *)
(* maps the iid of a node to the iids of its children in display order.     *)
(***************************************************************************)
MaxItems == 2

\* [p for p in path.split("/") if p]
RECURSIVE PathParts(_, _)
PathParts(s, cur) ==
    IF s = <<>> THEN (IF cur = <<>> THEN <<>> ELSE <<cur>>)
    ELSE IF Head(s) = "/"
         THEN (IF cur = <<>> THEN <<>> ELSE <<cur>>) \o PathParts(Tail(s), <<>>)
         ELSE PathParts(Tail(s), Append(cur, Head(s)))

\* "/".join(parts)
RECURSIVE JoinParts(_)
JoinParts(parts) ==
    IF parts = <<>> THEN <<>>
    ELSE IF Len(parts) = 1 THEN parts[1]
    ELSE parts[1] \o <<"/">> \o JoinParts(Tail(parts))

\* tree.insert(parent, "end", iid=iid)
TreeInsert(kids, parent, iid) ==
    [k \in DOMAIN kids \cup {iid} |->
        IF k = parent THEN Append(kids[k], iid)
        ELSE IF k \in DOMAIN kids THEN kids[k] ELSE <<>>]

\* The for loop of ensure_node from part i on; the parent of a new node is
\* node_map.get("/".join(parts[:i]), "") or "".
RECURSIVE EnsureFrom(_, _, _)
EnsureFrom(t0, parts, i) ==
    The({ IF i > Len(parts) THEN t
          ELSE The({ IF cur \in DOMAIN t.node_map THEN EnsureFrom(t, parts, i + 1)
                     ELSE EnsureFrom(
                              [t EXCEPT
                                 !.kids = TreeInsert(t.kids,
                                              (IF up \in DOMAIN t.node_map
                                               THEN t.node_map[up] ELSE <<>>),
                                              Gid(cur)),
                                 !.node_map = [q \in DOMAIN t.node_map \cup {cur} |->
                                                  IF q = cur THEN Gid(cur)
                                                  ELSE t.node_map[q]]],
                              parts, i + 1)
                     : cur \in {JoinParts(SubSeq(parts, 1, i))},
                       up \in {JoinParts(SubSeq(parts, 1, i - 1))} })
          : t \in {t0} })

\* GenreTreePane.rebuild.ensure_node(path): the tree it leaves and the node it
\* returns; node_map[path] raises KeyError when the loop made no such key.
EnsureNode(t0, path) ==
    IF path \in DOMAIN t0.node_map THEN [t |-> t0, raised |-> FALSE, iid |-> t0.node_map[path]]
    ELSE The({ IF path \in DOMAIN t.node_map
               THEN [t |-> t, raised |-> FALSE, iid |-> t.node_map[path]]
               ELSE [t |-> t, raised |-> TRUE, iid |-> <<>>]
               : t \in {EnsureFrom(t0, PathParts(path, <<>>), 1)} })

\* (w.get("genre") or "").strip()
GenrePath(it) == IF Truthy(it.genre) THEN Strip(it.genre.v) ELSE <<>>

\* GenreTreePane.rebuild before the loop over the words: the node "g:" of the
\* entries without a genre under the root, and node_map = {"": "g:"}.
GtStart(items) ==
    [items |-> items, next |-> 0, raised |-> FALSE,
     node_map |-> [q \in {<<>>} |-> Gid(<<>>)],
     kids |-> [k \in {<<>>, Gid(<<>>)} |-> IF k = <<>> THEN <<Gid(<<>>)>> ELSE <<>>],
     out |-> [tree |-> "none", under |-> <<>>, idxs |-> <<>>]]

\* _collect_word_indices_under over the children cs of a node; kids maps a
\* node to tree.get_children(node).
RECURSIVE CollectWordIndicesUnder(_, _)
CollectWordIndicesUnder(kids, cs) ==
    IF cs = <<>> THEN <<>>
    ELSE (IF IsWid(Head(cs)) THEN <<WidIndex(Head(cs))>>
          ELSE IF IsGid(Head(cs)) THEN CollectWordIndicesUnder(kids, kids[Head(cs)])
          ELSE <<>>)
         \o CollectWordIndicesUnder(kids, Tail(cs))

(***************************************************************************)
(* The study session: one action per handler of the main window, the left  *)
(* panel and the list window.                                              *)
(***************************************************************************)
Becomes(st0) ==
    \E st \in {st0} :
    /\ words' = st.words
    /\ current_word' = st.current_word
    /\ current_index' = st.current_index
    /\ active_parent' = st.active_parent
    /\ cursor_in_parent' = st.cursor_in_parent
    /\ suspend_select' = st.suspend_select
    /\ idle' = st.idle
    /\ right_word' = st.right_word
    /\ right_meaning' = st.right_meaning
    /\ left' = st.left

StartsAs(st) ==
    /\ words = st.words
    /\ current_word = st.current_word
    /\ current_index = st.current_index
    /\ active_parent = st.active_parent
    /\ cursor_in_parent = st.cursor_in_parent
    /\ suspend_select = st.suspend_select
    /\ idle = st.idle
    /\ right_word = st.right_word
    /\ right_meaning = st.right_meaning
    /\ left = st.left

Op(name, arg) == [op |-> name, arg |-> arg, run |-> 0, origin |-> -1, win |-> 0]

\* The lists main() can start the window with (loaded or initial_words).
PlainA == Item(Str(<<"a">>), Str(<<"m">>), Absent, Absent, Absent)
PlainC == Item(Str(<<"c">>), Str(<<"m">>), Str(<<"x">>), Absent, Absent)
ColouredB ==
    Item(Str(<<"b">>), Str(<<"m">>), Str(<<"x">>),
         List(<<[Run(Str(<<"b">>), Str(Red)) EXCEPT !.bold = Bool(TRUE)]>>),
         List(<<Run(Str(<<"m">>), Str(Blue))>>))

InitialLists == {<<PlainA>>, <<ColouredB, PlainA>>, <<PlainA, ColouredB, PlainC>>}

\* main(): the list MainPanel is given after load() returned loaded
\* (loaded or initial_words: an empty list counts as false), which
\* MainPanel.__init__ copies into words.
Main(loaded) ==
    IF loaded # <<>> THEN loaded
    ELSE << Item(Str(<<"a", "p", "p", "l", "e">>),
                 Str(<<"U+308A", "U+3093", "U+3054">>),
                 Str(<<"U+98DF", "U+3079", "U+7269", "/", "U+679C", "U+7269">>),
                 Absent, Absent),
            Item(Str(<<"b", "o", "o", "k">>),
                 Str(<<"U+672C">>),
                 Str(<<"U+5B66", "U+6821", "/", "U+9053", "U+5177">>),
                 Absent, Absent),
            Item(Str(<<"c", "o", "m", "p", "u", "t", "e", "r">>),
                 Str(<<"U+30B3", "U+30F3", "U+30D4", "U+30E5", "U+30FC", "U+30BF">>),
                 Str(<<"I", "T", "/", "U+6A5F", "U+5668">>),
                 Absent, Absent) >>

\* The row sets a list-window delete can carry (rows of a stale window included).
DeleteSets ==
    LET R == 0..MaxWords
    IN {{i} : i \in R} \cup {{i, j} : i \in R, j \in R}

\* The repository before the first load or save of a session, with the
\* target file as it was found.
RepoStart(file) ==
    /\ fs = [target |-> file, tmp |-> Missing, bad |-> Missing]
    /\ save_pc = "idle"
    /\ save_doc = <<>>
    /\ save_old = Missing
    /\ mem = [list |-> <<>>, from_load |-> FALSE, first |-> <<>>]
    /\ load_out = [raised |-> FALSE, value |-> <<>>, after |-> "idle", case |-> "none",
                   found |-> Missing]
    /\ reported = <<>>

Init ==
    /\ \E ws0 \in InitialLists : \E pick \in 0..(MaxWords - 1) :
          /\ pick < Len(WordChildren(Rebuild(ws0), Rebuild(ws0).genre_order[1]))
          /\ StartsAs(StartUp(ws0, pick))
          /\ RepoStart(File(Dump(WordsValue(ws0))))
    /\ last_op = Op("start", 0)
    /\ listed = [open |-> FALSE, rows |-> <<>>]
    /\ changes = 0
    /\ mix = [text |-> <<>>, out |-> <<>>, disabled |-> FALSE]
    /\ gt = GtStart(<<>>)

\* LeftPanel._on_click on the row of word idx: highlight it, then notify
\* MainPanel._on_tree_select_iid, which returns at once while suspended.
ClickWord(idx) ==
    /\ Contains(left.rows, Wid(idx))
    /\ LET st == [Cur EXCEPT !.left = SelectRow(left, Wid(idx))]
       IN Becomes(IF suspend_select THEN st ELSE OnTreeSelectWord(st, Wid(idx)))
    /\ last_op' = Op(IF suspend_select THEN "click_suspended" ELSE "click", idx)
    /\ UNCHANGED <<listed, changes, fs, save_pc, save_doc, save_old, mem, load_out,
                 reported, mix, gt>>

\* MainPanel._on_tree_select_iid for a genre row.
SelectGroup(gid) ==
    /\ ~suspend_select
    /\ \E pick \in 0..(MaxWords - 1) :
          /\ pick < Max(Len(WordChildren(left, gid)), 1)
          /\ Becomes(OnTreeSelectGroup(Cur, gid, pick))
    /\ last_op' = Op("select", gid)
    /\ UNCHANGED <<listed, changes, fs, save_pc, save_doc, save_old, mem, load_out,
                 reported, mix, gt>>

\* The rows of the active group as _siblings_words returns them now.
ActiveRows == SiblingsWords(Cur).ws

\* The next button / the d and Right keys.  last_op counts the presses that
\* follow each other on the same group and keeps the cursor of the first.
Next_word ==
    /\ Becomes(NextWord(Cur))
    /\ \E k \in {Len(ActiveRows)} :
       \E goes_on \in {last_op.run >= 1 /\ last_op.run < k} :
          last_op' = [op |-> "next",
                      arg |-> <<cursor_in_parent, right_meaning.kind>>,
                      run |-> IF k = 0 THEN 0 ELSE IF goes_on THEN last_op.run + 1 ELSE 1,
                      origin |-> IF goes_on THEN last_op.origin ELSE cursor_in_parent,
                      win |-> 0]
    /\ UNCHANGED <<listed, changes, fs, save_pc, save_doc, save_old, mem, load_out,
                 reported, mix, gt>>

\* The a and Left keys.
Prev_word ==
    /\ Becomes(PrevWord(Cur))
    /\ last_op' = Op("prev", <<cursor_in_parent, right_meaning.kind>>)
    /\ UNCHANGED <<listed, changes, fs, save_pc, save_doc, save_old, mem, load_out,
                 reported, mix, gt>>

\* The meaning button / the Return key.
Show_meaning ==
    /\ current_word.some
    /\ Becomes(ShowMeaning(Cur))
    /\ last_op' = Op("reveal", 0)
    /\ UNCHANGED <<listed, changes, fs, save_pc, save_doc, save_old, mem, load_out,
                 reported, mix, gt>>

\* A faulty variant of Add: the list is saved before the item is appended.
AddSavesFirst(dlg) ==
    /\ changes < MaxChanges
    /\ idle = {}
    /\ Len(words) < MaxWords
    /\ Submits(dlg)
    /\ Becomes(AddSubmit(Cur, SubmitItem(dlg)))
    /\ last_op' = Op("add", SubmitItem(dlg))
    /\ changes' = changes + 1
    /\ fs' = SaveAll(fs, words)
    /\ UNCHANGED <<listed, save_pc, save_doc, save_old, mem, load_out,
                 reported, mix, gt>>

\* The add dialog is submitted.  A dialog is a window of its own: it is drawn
\* by idle tasks, so the idle callbacks have run before it can be submitted.
Add(dlg) ==
    /\ changes < MaxChanges
    /\ idle = {}
    /\ Len(words) < MaxWords
    /\ Submits(dlg)
    /\ Becomes(AddSubmit(Cur, SubmitItem(dlg)))
    /\ last_op' = Op("add", SubmitItem(dlg))
    /\ changes' = changes + 1
    /\ fs' = SaveAll(fs, words')
    /\ UNCHANGED <<listed, save_pc, save_doc, save_old, mem, load_out,
                 reported, mix, gt>>

\* LeftPanel._on_edit on the highlighted row, and the edit dialog submitted.
TreeEdit(dlg) ==
    /\ changes < MaxChanges
    /\ idle = {}
    /\ IsWid(left.sel)
    /\ InRange(Cur, WidIndex(left.sel))
    /\ Submits(dlg)
    /\ Becomes(TreeEditSubmit(Cur, WidIndex(left.sel), SubmitItem(dlg)))
    /\ last_op' = Op("tree_edit", <<WidIndex(left.sel), SubmitItem(dlg)>>)
    /\ changes' = changes + 1
    /\ fs' = SaveAll(fs, words')
    /\ UNCHANGED <<listed, save_pc, save_doc, save_old, mem, load_out,
                 reported, mix, gt>>

\* WordListWindow.refresh: one row per entry, "row-<i>" for words_ref[i], with
\* the word, the meaning and the genre as the entry has them now.
Refresh(ws) ==
    [open |-> TRUE,
     rows |-> [k \in 1..Len(ws) |->
                 <<GetOr(ws[k].word, Str(<<>>)), GetOr(ws[k].meaning, Str(<<>>)),
                   GetOr(ws[k].genre, Str(<<>>))>>]]

\* WordListWindow._on_edit on row idx, and the edit dialog submitted.  win 1
\* is the list window whose rows the model keeps in listed: the row must be
\* one of its rows, and the window refreshes itself after the edit.  win 2
\* is a list window whose rows the model does not keep; no window refreshes
\* another one.
ListEdit(win, idx, dlg) ==
    /\ changes < MaxChanges
    /\ idle = {}
    /\ win = 1 => listed.open /\ idx < Len(listed.rows)
    /\ InRange(Cur, idx)
    /\ Submits(dlg)
    /\ Becomes(ListEditSubmit(Cur, idx, SubmitItem(dlg)))
    /\ listed' = IF win = 1 THEN Refresh(words') ELSE listed
    /\ last_op' = [Op("list_edit", <<idx, SubmitItem(dlg)>>) EXCEPT !.win = win]
    /\ changes' = changes + 1
    /\ fs' = SaveAll(fs, words')
    /\ UNCHANGED <<save_pc, save_doc, save_old, mem, load_out,
                 reported, mix, gt>>

\* WordListWindow._on_delete with the rows idxs selected, in window win.
Delete(win, idxs) ==
    /\ changes < MaxChanges
    /\ idle = {}
    /\ idxs # {}
    /\ win = 1 => listed.open /\ \A i \in idxs : i < Len(listed.rows)
    /\ Becomes(ListDelete(Cur, idxs))
    /\ listed' = IF win = 1 THEN Refresh(words') ELSE listed
    /\ last_op' = [Op("delete", idxs) EXCEPT !.win = win]
    /\ changes' = changes + 1
    /\ fs' = SaveAll(fs, words')
    /\ UNCHANGED <<save_pc, save_doc, save_old, mem, load_out,
                 reported, mix, gt>>

\* The event queue runs dry: Tk runs the after_idle callbacks.
GoIdle ==
    /\ idle # {}
    /\ Becomes(RunIdle(Cur))
    /\ last_op' = [last_op EXCEPT !.op = "idle", !.arg = 0]
    /\ UNCHANGED <<listed, changes, fs, save_pc, save_doc, save_old, mem, load_out,
                 reported, mix, gt>>

Next ==
    \/ \E idx \in 0..(MaxWords - 1) : ClickWord(idx)
    \/ \E gid \in {Gid(Uncategorized), Gid(<<"x">>)} : SelectGroup(gid)
    \/ Next_word
    \/ Prev_word
    \/ Show_meaning
    \/ \E dlg \in DialogInputs : Add(dlg)
    \/ \E dlg \in DialogInputs : TreeEdit(dlg)
    \/ /\ IsWid(left.sel)
       /\ InRange(Cur, WidIndex(left.sel))
       /\ TreeEdit(DialogFor(words[WidIndex(left.sel) + 1]))
    \/ \E idx \in 0..(MaxWords - 1) : \E dlg \in DialogInputs : ListEdit(2, idx, dlg)
    \/ \E idxs \in DeleteSets : Delete(2, idxs)
    \/ GoIdle

Spec == Init /\ [][Next]_vars

(***************************************************************************)
(* The windows side by side: a list window is opened from the main window  *)
(* (MainPanel.open_list_window) and stays open while the list is changed   *)
(* from the main window, from itself (win 1) and from a second list window *)
(* (win 2).  The study handlers do not touch the list and are left out.    *)
(***************************************************************************)
NextList ==
    \/ /\ ~listed.open
       /\ listed' = Refresh(words)
       /\ last_op' = Op("open_list", 0)
       /\ UNCHANGED <<words, current_word, current_index, active_parent,
                      cursor_in_parent, suspend_select, idle, right_word,
                      right_meaning, left, changes, fs, save_pc, save_doc,
                      save_old, mem, load_out, reported, mix, gt>>
    \/ \E dlg \in DialogInputs : Add(dlg)
    \/ \E dlg \in DialogInputs : TreeEdit(dlg)
    \/ \E win \in 1..2 : \E idx \in 0..(MaxWords - 1) : \E dlg \in DialogInputs :
          ListEdit(win, idx, dlg)
    \/ \E win \in 1..2 : \E idxs \in DeleteSets : Delete(win, idxs)
    \/ GoIdle

SpecList == Init /\ [][NextList]_vars

(***************************************************************************)
(* The repository: load() and the steps of save() on the data directory.    *)
(***************************************************************************)
\* Well-formed entries a session can hold.
NoGenreEmptyRuns ==
    Item(Str(<<"a">>), Str(<<>>), Str(<<>>), List(<<>>), Absent)
StyledC ==
    Item(Str(<<"c">>), Str(<<"m">>), Str(<<"x", "/", "y">>),
         List(<<[Run(Str(<<"c">>), Str(Red)) EXCEPT !.bold = Bool(TRUE),
                                                    !.bg = Str(Blue)]>>),
         Absent)

\* Contents words.json can have when the program starts.
InitialFiles ==
    { Missing,
      File(<<Tok("junk", <<"n", "o", "t">>), Tok("junk", <<"j", "s", "o", "n">>)>>),
      File(<<Punct("["), Punct("{")>>),
      File(Dump(Str(<<"n", "o", "t", " ", "j", "s", "o", "n">>))),
      File(Dump(Number(<<"5">>))),
      File(Dump(Dict(<<Pair("version", Number(<<"1">>))>>))),
      File(Dump(Dict(<<Pair("words", Str(<<"a">>))>>))),
      File(Dump(Dict(<<Pair("words", WordsValue(<<ColouredB>>))>>))),
      File(Dump(List(<<Number(<<"5">>),
                       Dict(<<Pair("word", Number(<<"5">>)),
                              Pair("genre", Number(<<"1">>)),
                              Pair("word_runs",
                                   List(<<Str(<<"a">>),
                                          Dict(<<Pair("text", Null)>>),
                                          Dict(<<Pair("text", Str(<<"a">>)),
                                                 Pair("fg", Bool(TRUE))>>)>>))>>)>>))) }

\* What load() finds: no file, a file it cannot read, text that is no JSON,
\* an array, an object with a words array, or another root.
FileCase(file, readable) ==
    IF ~file.exists THEN "missing"
    ELSE IF ~readable THEN "unreadable"
    ELSE The({ IF ~r.ok THEN "invalid"
               ELSE IF IsList(r.val) THEN "array"
               ELSE IF IsDict(r.val) /\ Has(r.val, "words") /\ IsList(Get(r.val, "words"))
                    THEN "object"
               ELSE "bad_root"
               : r \in {JsonLoad(file.toks)} })

InitRepo ==
    /\ StartsAs(StartUp(<<PlainA>>, 0))
    /\ last_op = Op("start", 0)
    /\ listed = [open |-> FALSE, rows |-> <<>>]
    /\ changes = 0
    /\ \E file \in InitialFiles : RepoStart(file)
    /\ mix = [text |-> <<>>, out |-> <<>>, disabled |-> FALSE]
    /\ gt = GtStart(<<>>)

BetweenCalls == save_pc \in {"idle", "done", "failed"}

\* repo.load()
LoadFile(readable, renamed) ==
    /\ BetweenCalls
    /\ \E r \in {Load(fs, readable, renamed)} :
          /\ load_out' = [raised |-> r.out.raised, value |-> r.out.value,
                          after |-> save_pc, case |-> FileCase(fs.target, readable),
                          found |-> fs.target]
          /\ fs' = r.fs
    /\ save_pc' = "idle"
    /\ save_doc' = <<>>
    /\ save_old' = Missing
    /\ UNCHANGED <<mem, changes, ctl_vars,
                 reported, mix, gt>>

\* repo.save(entries) starts: mkdir, and the text json.dump is going to write.
SaveBegin(entries, mkdir_ok) ==
    /\ BetweenCalls
    /\ changes < MaxChanges
    /\ changes' = changes + 1
    /\ mem' = [list |-> entries, from_load |-> FALSE, first |-> entries]
    /\ save_doc' = Dump(WordsValue(entries))
    /\ save_old' = fs.target
    /\ save_pc' = IF mkdir_ok THEN "open" ELSE "failed"
    /\ UNCHANGED <<fs, load_out, ctl_vars,
                 reported, mix, gt>>

\* repo.save(repo.load()) starts: what was loaded after a save is saved again.
SaveLoaded ==
    /\ save_pc = "idle"
    /\ load_out.after = "done"
    /\ changes < MaxChanges
    /\ changes' = changes + 1
    /\ mem' = [list |-> load_out.value, from_load |-> TRUE, first |-> mem.first]
    /\ save_doc' = Dump(WordsValue(load_out.value))
    /\ save_old' = fs.target
    /\ save_pc' = "open"
    /\ UNCHANGED <<fs, load_out, ctl_vars,
                 reported, mix, gt>>

SaveOpen ==
    /\ save_pc = "open"
    /\ fs' = OpenTmp(fs)
    /\ save_pc' = "write"
    /\ UNCHANGED <<save_doc, save_old, mem, load_out, changes, ctl_vars,
                 reported, mix, gt>>

\* json.dump has written the first half of the text.
SaveWriteSome ==
    /\ save_pc = "write"
    /\ fs' = WriteTmp(fs, SubSeq(save_doc, 1, Len(save_doc) \div 2))
    /\ save_pc' = "flush"
    /\ UNCHANGED <<save_doc, save_old, mem, load_out, changes, ctl_vars,
                 reported, mix, gt>>

\* json.dump has written the rest and the with block has closed the file.
SaveWriteRest ==
    /\ save_pc = "flush"
    /\ fs' = WriteTmp(fs, save_doc)
    /\ save_pc' = "replace"
    /\ UNCHANGED <<save_doc, save_old, mem, load_out, changes, ctl_vars,
                 reported, mix, gt>>

SaveReplace ==
    /\ save_pc = "replace"
    /\ fs' = ReplaceTarget(fs)
    /\ save_pc' = "done"
    /\ UNCHANGED <<save_doc, save_old, mem, load_out, changes, ctl_vars,
                 reported, mix, gt>>

\* The step save() is at raises (no permission, disk full); save() swallows
\* the exception and returns.
SaveStops ==
    /\ save_pc \in {"open", "write", "flush", "replace"}
    /\ save_pc' = "failed"
    /\ UNCHANGED <<fs, save_doc, save_old, mem, load_out, changes, ctl_vars,
                 reported, mix, gt>>

NextRepo ==
    \/ \E readable \in BOOLEAN : \E renamed \in BOOLEAN : LoadFile(readable, renamed)
    \/ \E entries \in { <<>>, <<PlainA>>, <<NoGenreEmptyRuns, StyledC>>,
                        <<ColouredB, NoGenreEmptyRuns>> } :
       \E mkdir_ok \in BOOLEAN : SaveBegin(entries, mkdir_ok)
    \/ SaveLoaded
    \/ SaveOpen
    \/ SaveWriteSome
    \/ SaveWriteRest
    \/ SaveReplace
    \/ SaveStops

SpecRepo == InitRepo /\ [][NextRepo]_vars

(***************************************************************************)
(* The pure functions on bounded inputs: insert_mixed_text character by     *)
(* character on a plain string, GenreTreePane.rebuild word by word, and the *)
(* rows collected under a node of it or under a row of the LeftPanel        *)
(* adapter.  A run renders one string or builds one tree.                   *)
(***************************************************************************)
\* The strings are made of the code points around the ends of the three
\* ranges and of 'A', U+3042, U+30FC.  The genres of the entries are: none,
\* empty, one and two segments, empty segments, white space around the path,
\* a name that sorts before "(".
InitPure ==
    /\ StartsAs(StartUp(<<PlainA>>, 0))
    /\ last_op = Op("start", 0)
    /\ listed = [open |-> FALSE, rows |-> <<>>]
    /\ changes = 0
    /\ RepoStart(Missing)
    /\ LET CodePoints ==
               {65, 12351, 12352, 12354, 12540, 12543, 12544, 19967, 19968,
                40959, 40960, 65381, 65382, 65437, 65438}
           GenreInputs ==
               { Absent, Str(<<>>), Str(<<"x">>), Str(<<"y">>),
                 Str(<<"x", "/", "y">>), Str(<<"x", "/", "/", "y">>),
                 Str(<<"/", "x">>), Str(<<"x", "/">>), Str(<<"/">>),
                 Str(<<" ", "x">>), Str(<<"!">>) }
       IN \/ /\ \E text \in UNION {[1..n -> CodePoints] : n \in 0..MaxText} :
                   mix = [text |-> text, out |-> <<>>, disabled |-> FALSE]
             /\ gt = GtStart(<<>>)
          \/ /\ mix = [text |-> <<>>, out |-> <<>>, disabled |-> TRUE]
             /\ \E items \in UNION {[1..n -> {Item(Str(<<"a">>), Str(<<"m">>), g,
                                                   Absent, Absent) :
                                                 g \in GenreInputs}] :
                                       n \in 1..MaxItems} :
                   gt = GtStart(items)

\* put_text: widget.insert("end", ch, tag) for the next character, tagged
\* "japanese" if is_japanese(ch) else "english".
PutChar ==
    /\ ~mix.disabled
    /\ Len(mix.out) < Len(mix.text)
    /\ \E ch \in {mix.text[Len(mix.out) + 1]} :
          mix' = [mix EXCEPT !.out = Append(@, [ch |-> ch,
                                                tag |-> IF is_japanese(ch)
                                                        THEN "japanese"
                                                        ELSE "english"])]
    /\ UNCHANGED <<gt, changes, ctl_vars, repo_vars>>

\* widget.configure(state="disabled") after the last character.
PutDone ==
    /\ ~mix.disabled
    /\ Len(mix.out) = Len(mix.text)
    /\ mix' = [mix EXCEPT !.disabled = TRUE]
    /\ UNCHANGED <<gt, changes, ctl_vars, repo_vars>>

\* GenreTreePane.rebuild: one round of the loop over the words, the row of
\* word gt.next under ensure_node(gpath), or under "g:" for an empty gpath.
GtInsertWord ==
    /\ gt.out.tree = "none"
    /\ ~gt.raised
    /\ gt.next < Len(gt.items)
    /\ \E gpath \in {GenrePath(gt.items[gt.next + 1])} :
       \E r \in {IF gpath # <<>>
                 THEN EnsureNode([node_map |-> gt.node_map, kids |-> gt.kids], gpath)
                 ELSE [t |-> [node_map |-> gt.node_map, kids |-> gt.kids],
                       raised |-> FALSE, iid |-> Gid(<<>>)]} :
          gt' = IF r.raised
                THEN [gt EXCEPT !.raised = TRUE, !.node_map = r.t.node_map,
                                !.kids = r.t.kids]
                ELSE [gt EXCEPT !.next = gt.next + 1,
                                !.node_map = r.t.node_map,
                                !.kids = TreeInsert(r.t.kids, r.iid, Wid(gt.next))]
    /\ UNCHANGED <<mix, changes, ctl_vars, repo_vars>>

\* _collect_word_indices_under(iid) on the Treeview, once rebuild has
\* returned or raised.
GtCollect ==
    /\ gt.out.tree = "none"
    /\ gt.items # <<>>
    /\ gt.raised \/ gt.next = Len(gt.items)
    /\ \E iid \in DOMAIN gt.kids :
          gt' = [gt EXCEPT !.out = [tree |-> "pane", under |-> iid,
                                    idxs |-> CollectWordIndicesUnder(gt.kids,
                                                                     gt.kids[iid])]]
    /\ UNCHANGED <<mix, changes, ctl_vars, repo_vars>>

\* _collect_word_indices_under(iid) of MainPanel on the LeftPanel adapter
\* after LeftPanel.rebuild(items).
LpCollect ==
    /\ gt.out.tree = "none"
    /\ gt.items # <<>>
    /\ gt.next = 0
    /\ \E lp \in {Rebuild(gt.items)} :
       \E iid \in {<<>>} \cup {lp.genre_order[k] : k \in 1..Len(lp.genre_order)} :
          gt' = [gt EXCEPT !.out =
                    [tree |-> "adapter", under |-> iid,
                     idxs |-> CollectWordIndicesUnder(
                                 [k \in {<<>>} \cup {lp.genre_order[j] :
                                                       j \in 1..Len(lp.genre_order)}
                                    |-> GetChildren(lp, k)],
                                 GetChildren(lp, iid))]]
    /\ UNCHANGED <<mix, changes, ctl_vars, repo_vars>>

NextPure ==
    \/ PutChar
    \/ PutDone
    \/ GtInsertWord
    \/ GtCollect
    \/ LpCollect

SpecPure == InitPure /\ [][NextPure]_vars

(***************************************************************************)
(* Properties of the study session.                                         *)
(***************************************************************************)
\* The places (genre, position) of the tree that hold the row of word i.
PlacesOf(i) ==
    {gp \in UNION {{<<g, p>> : p \in 1..Len(left.genre_to_words[g])} :
                      g \in DOMAIN left.genre_to_words} :
        left.genre_to_words[gp[1]][gp[2]] = Wid(i)}

\* C1: after rebuild(words) every index of [0, N) is in exactly one group,
\* once; no group holds a row outside the range; an entry whose genre is
\* absent or empty is in the uncategorized group.
C1_Partition ==
    /\ \A i \in 0..(Len(words) - 1) : Cardinality(PlacesOf(i)) = 1
    /\ \A g \in DOMAIN left.genre_to_words :
          \A p \in 1..Len(left.genre_to_words[g]) :
             /\ IsWid(left.genre_to_words[g][p])
             /\ WidIndex(left.genre_to_words[g][p]) \in 0..(Len(words) - 1)
    /\ \A i \in 0..(Len(words) - 1) :
          (words[i + 1].genre = Absent \/ words[i + 1].genre = Str(<<>>))
             => /\ Uncategorized \in DOMAIN left.genre_to_words
                /\ Contains(left.genre_to_words[Uncategorized], Wid(i))

\* Two groups, the uncategorized one holding an entry without a genre and an
\* entry with an empty genre.
C1_Witness ==
    /\ Cardinality(DOMAIN left.genre_to_words) = 2
    /\ \E i, j \in 1..Len(words) :
          /\ words[i].genre = Absent
          /\ words[j].genre = Str(<<>>)
          /\ Contains(left.genre_to_words[Uncategorized], Wid(i - 1))
          /\ Contains(left.genre_to_words[Uncategorized], Wid(j - 1))

\* k presses of next in a row on a group of k rows have just ended.
FullRound ==
    /\ last_op.op = "next"
    /\ Len(ActiveRows) >= 1
    /\ last_op.run = Len(ActiveRows)

\* The state shows the row at place c of the active group as the current entry.
CurrentIsRow(c) ==
    /\ cursor_in_parent = c
    /\ current_index = WidIndex(ActiveRows[c + 1])
    /\ current_word = Some(words[WidIndex(ActiveRows[c + 1]) + 1])

EditJustDone == last_op.op \in {"tree_edit", "list_edit"}

\* C6: an edit that supplies no word_runs (no meaning_runs) leaves the stored
\* word_runs (meaning_runs) of the entry as they were; every supplied field
\* replaces the old value; the other entries are not touched.
C6_EditKeepsRuns ==
    [][ last_op'.op \in {"tree_edit", "list_edit"} =>
          \E idx \in {last_op'.arg[1]} : \E upd \in {last_op'.arg[2]} :
             /\ Len(words') = Len(words)
             /\ \A j \in 1..Len(words) : j # idx + 1 => words'[j] = words[j]
             /\ words'[idx + 1].word = upd.word
             /\ words'[idx + 1].meaning = upd.meaning
             /\ words'[idx + 1].genre = upd.genre
             /\ words'[idx + 1].word_runs =
                   IF upd.word_runs = Absent THEN words[idx + 1].word_runs
                   ELSE upd.word_runs
             /\ words'[idx + 1].meaning_runs =
                   IF upd.meaning_runs = Absent THEN words[idx + 1].meaning_runs
                   ELSE upd.meaning_runs ]_vars

\* An edit without word_runs has been stored and the entry still has its runs,
\* while its meaning_runs are the submitted ones.
C6_Witness ==
    /\ EditJustDone
    /\ last_op.arg[2].word_runs = Absent
    /\ IsList(last_op.arg[2].meaning_runs)
    /\ IsList(words[last_op.arg[1] + 1].word_runs)
    /\ words[last_op.arg[1] + 1].meaning_runs = last_op.arg[2].meaning_runs

\* The places of ws, in order, that a delete of the rows idxs keeps.
Kept(ws, idxs) == {p \in 1..Len(ws) : (p - 1) \notin idxs}

\* C7: delete(indices) removes exactly the entries at the distinct in-range
\* positions of the request, keeps the others in their order, and ignores
\* the positions outside the range.
C7_DeleteExact ==
    [][ last_op'.op = "delete" =>
          \E keep \in {Kept(words, last_op'.arg)} :
             /\ Len(words') = Cardinality(keep)
             /\ \A q \in 1..Len(words') :
                   words'[q] = words[CHOOSE p \in keep :
                                        Cardinality({r \in keep : r < p}) = q - 1] ]_vars

\* A delete of the first row and of a row behind the end of a list of three
\* has left the other two.
C7_Witness ==
    /\ last_op.op = "delete"
    /\ last_op.arg = {0, MaxWords}
    /\ Len(words) = MaxWords - 1

C8_WitnessEmpty ==
    /\ last_op.op = "select"
    /\ Len(ActiveRows) = 0
    /\ right_word.kind = "placeholder"

ShowsPlaceholder == right_word = Shown("placeholder", NoWordsText)

\* C10 as stated: reveal() is a no-op while the controller is idle, showing
\* the placeholder of an empty group.
C10_RevealIdleNoOp ==
    [][ (last_op'.op = "reveal" /\ ShowsPlaceholder)
           => UNCHANGED <<right_word, right_meaning>> ]_vars

(***************************************************************************)
(* Properties of the repository.                                            *)
(***************************************************************************)
\* load() has just returned after a save() that ran to its end.
LoadedAfterSave ==
    /\ save_pc = "idle"
    /\ load_out.after = "done"
    /\ load_out.case # "unreadable"

\* C3: save(E) followed by load() returns the sanitized form of E, field by
\* field; saving that result and loading again returns the same collection.
C3_RoundTrip ==
    LoadedAfterSave =>
       /\ ~load_out.raised
       /\ load_out.value = Sanitized(mem.list)
       /\ mem.from_load => load_out.value = mem.list

\* The second round of a list that sanitation changed: it came back as it was
\* after the first round.
C3_Witness ==
    /\ LoadedAfterSave
    /\ mem.from_load
    /\ mem.first # mem.list
    /\ Len(mem.list) = 2
    /\ load_out.value = mem.list

\* C4: load() returns an empty collection and raises nothing when the file
\* is missing, is no valid JSON, or has a root that is neither an array nor
\* an object with a words array.
C4_LoadEmpty ==
    load_out.case \in {"missing", "invalid", "bad_root"} =>
       /\ ~load_out.raised
       /\ load_out.value = <<>>

\* A file that is no JSON was loaded as the empty collection and moved aside.
C4_Witness ==
    /\ load_out.case = "invalid"
    /\ load_out.value = <<>>
    /\ fs.bad.exists
    /\ ~fs.target.exists

\* C5: while save() runs and after it ended or failed, the target holds the
\* whole previous document or the whole new one; the new one is whole in the
\* temporary file before it replaces the target.
C5_TargetWhole ==
    save_pc # "idle" =>
       /\ fs.target \in {save_old, File(save_doc)}
       /\ save_pc = "replace" => fs.tmp = File(save_doc)
       /\ save_pc = "done" => fs.target = File(save_doc)
       /\ save_pc \in {"open", "write", "flush", "replace", "failed"}
             => fs.target = save_old

\* save() failed after half of the text was written: the target still holds
\* the previous document, the half is in the temporary file.
C5_Witness ==
    /\ save_pc = "failed"
    /\ fs.tmp.exists
    /\ fs.tmp.toks # <<>>
    /\ fs.tmp # File(save_doc)
    /\ fs.target.exists
    /\ fs.target = save_old
    /\ fs.target # File(save_doc)

(***************************************************************************)
(* Properties of add, edit and delete on the study session.                 *)
(***************************************************************************)
\* The current entry is a row of the active group.
CurrentIsMember ==
    /\ current_word.some
    /\ Contains(ActiveRows, Wid(current_index))

\* C11 as stated: add(entry) appends the entry at the end; when the current
\* entry is a row of the active group the controller stays on it
\* (current_index unchanged) with the cursor on its row.
C11_AddStays ==
    [][ last_op'.op = "add" =>
          /\ words' = Append(words, last_op'.arg)
          /\ CurrentIsMember =>
                /\ current_index' = current_index
                /\ cursor_in_parent' \in 0..(Len(ActiveRows') - 1)
                /\ ActiveRows'[cursor_in_parent' + 1] = Wid(current_index) ]_vars

\* C12 as stated: after edit(index, fields) the current entry is index, the
\* active group is the group that now holds index and the cursor is the
\* position of index in that group.
C12_EditReselects ==
    last_op.op \in {"tree_edit", "list_edit"} =>
       \E idx \in {last_op.arg[1]} :
          /\ current_index = idx
          /\ current_word = Some(words[idx + 1])
          /\ active_parent = TreeParent(left, Wid(idx))
          /\ cursor_in_parent = PositionIn(ActiveRows, Wid(idx))

\* The index an entry at index i has after a delete of the rows idxs.
IndexAfterDelete(i, idxs) == i - Cardinality({j \in idxs : 0 <= j /\ j < i})

\* C13 as stated: after delete(indices), if the current entry was deleted the
\* controller is idle (no cursor) or on the first row of the active group;
\* if it was not deleted the controller is still on that entry, at its new
\* index, and shows its word.
C13_DeleteFallback ==
    [][ ( /\ last_op'.op = "delete"
          /\ current_word.some
          /\ InRange(Cur, current_index)
          /\ current_word = Some(words[current_index + 1]) )
        => IF current_index \in last_op'.arg
           THEN \/ cursor_in_parent' = -1
                \/ /\ Len(ActiveRows') >= 1
                   /\ cursor_in_parent' = 0
                   /\ current_index' = WidIndex(ActiveRows'[1])
           ELSE /\ current_index' = IndexAfterDelete(current_index, last_op'.arg)
                /\ current_word' = current_word
                /\ right_word' \in {Shown("entry", TextOf(current_word.item.word)),
                                    WordDisplay(current_word.item)} ]_vars

(***************************************************************************)
(* Properties of the display of runs.                                       *)
(***************************************************************************)
\* The fragments the runs of an entry ask for: one per run with a non-empty
\* text, in order, with the run's fg, bg, bold, italic and underline.
RECURSIVE StyledFragments(_)
StyledFragments(runs) ==
    IF runs = <<>> THEN <<>>
    ELSE (IF IsStr(Head(runs).text) /\ Head(runs).text.v # <<>>
          THEN <<[text |-> Head(runs).text.v,
                  fg |-> IF IsStr(Head(runs).fg) THEN Head(runs).fg.v ELSE <<>>,
                  bg |-> IF IsStr(Head(runs).bg) THEN Head(runs).bg.v ELSE <<>>,
                  bold |-> Head(runs).bold = Bool(TRUE),
                  italic |-> Head(runs).italic = Bool(TRUE),
                  underline |-> Head(runs).underline = Bool(TRUE)]>>
          ELSE <<>>)
         \o StyledFragments(Tail(runs))

\* The area shows the runs, fragment by fragment, and no plain string.
ShowsRuns(area, runs) ==
    /\ area.via = "runs"
    /\ area.text = <<>>
    /\ area.frags = StyledFragments(runs)

\* C15 as stated: when the entry put on display has a non-empty run list,
\* the area shows one fragment per run in order, each with the run's fg, bg,
\* bold, italic and underline, and not the plain string: the word after
\* next(), prev() and add(), the meaning after reveal().
C15_RunsDisplayed ==
    /\ ( /\ last_op.op \in {"next", "prev", "add"}
         /\ Len(ActiveRows) >= 1
         /\ HasRuns(current_word.item.word_runs) )
          => ShowsRuns(right_word, current_word.item.word_runs.v)
    /\ ( /\ last_op.op = "reveal"
         /\ HasRuns(current_word.item.meaning_runs) )
          => ShowsRuns(right_meaning, current_word.item.meaning_runs.v)

(***************************************************************************)
(* Properties of the repository: failures and malformed documents.          *)
(***************************************************************************)
\* C14 as stated: when save() fails at a step (mkdir, the temporary write,
\* the replace) the failure is reported (log, callback or return value) and
\* the in-memory collection stays as it is.
C14_SaveFailureReported ==
    [][ save_pc' = "failed" =>
          /\ reported' # reported
          /\ save_pc \in {"open", "write", "flush", "replace"} => mem' = mem ]_vars

\* The records of the document load() found: the dicts of its array.
FoundRecords ==
    The({ SelectSeq((IF IsDict(r.val) /\ Has(r.val, "words")
                     THEN Get(r.val, "words") ELSE r.val).v, IsDict)
          : r \in {JsonLoad(load_out.found.toks)} })

\* The string a text field of a record is to become: itself, or "" when it
\* is absent or no string.
TextOrEmpty(x) == IF IsStr(x) THEN x ELSE Str(<<>>)

\* C18 as stated: in every record load() keeps, word and meaning are the
\* stored strings, and "" when the field is absent or no string.
C18_TextFieldsDefault ==
    load_out.case \in {"array", "object"} =>
       /\ Len(load_out.value) = Len(FoundRecords)
       /\ \A i \in 1..Len(load_out.value) :
             /\ load_out.value[i].word = TextOrEmpty(Get(FoundRecords[i], "word"))
             /\ load_out.value[i].meaning = TextOrEmpty(Get(FoundRecords[i], "meaning"))

\* C19 as stated: whenever load() rejected a malformed document and returned
\* empty, the file has been moved aside: it is kept under the other name and
\* is no longer the target a later save() replaces.
C19_Quarantined ==
    load_out.case \in {"invalid", "bad_root"} =>
       /\ load_out.value = <<>>
       /\ fs.bad = load_out.found
       /\ fs.target # load_out.found

(***************************************************************************)
(* Properties of the renderer on plain strings.                             *)
(***************************************************************************)
\* The inclusive ranges of Japanese script: U+3040..U+30FF, U+4E00..U+9FFF,
\* U+FF66..U+FF9D.
JapaneseRanges == {<<12352, 12543>>, <<19968, 40959>>, <<65382, 65437>>}

\* C16: a character is tagged as Japanese exactly when its code point lies
\* in one of the three inclusive ranges; U+303F, U+3100, U+4DFF, U+A000,
\* U+FF65 and U+FF9E are not.
C16_JapaneseRanges ==
    \A k \in 1..Len(mix.out) :
       /\ mix.out[k].ch = mix.text[k]
       /\ (mix.out[k].tag = "japanese")
             <=> (\E r \in JapaneseRanges : r[1] <= mix.out[k].ch /\ mix.out[k].ch <= r[2])
       /\ mix.out[k].ch \in {12351, 12544, 19967, 40960, 65381, 65438}
             => mix.out[k].tag = "english"

\* The last half-width katakana and the code point behind it have been
\* rendered: the first as Japanese, the second not.
C16_Witness ==
    /\ mix.disabled
    /\ mix.text = <<65437, 65438>>
    /\ mix.out = <<[ch |-> 65437, tag |-> "japanese"], [ch |-> 65438, tag |-> "english"]>>

(***************************************************************************)
(* Properties of the genre trees.                                           *)
(***************************************************************************)
\* The path an entry is tagged with, as the tree that was asked reads it.
TaggedPath(it) ==
    IF gt.out.tree = "pane" THEN GenrePath(it)
    ELSE IF Truthy(it.genre) THEN it.genre.v ELSE <<>>

\* The path of the group a collect was asked for ("" for the entries without
\* a genre).
AskedPath ==
    IF gt.out.under \in {Gid(<<>>), Gid(Uncategorized)} THEN <<>> ELSE Tail(gt.out.under)

\* path is a sub-path of the group path: the group path, a "/", and more.
IsSubPath(path, group) ==
    /\ group # <<>>
    /\ Len(path) > Len(group) + 1
    /\ SubSeq(path, 1, Len(group) + 1) = group \o <<"/">>

\* The indices collect_under is to return for the node that was asked.
IndicesUnder ==
    IF gt.out.under = <<>> THEN 0..(Len(gt.items) - 1)
    ELSE {i \in 0..(Len(gt.items) - 1) :
             \/ TaggedPath(gt.items[i + 1]) = AskedPath
             \/ IsSubPath(TaggedPath(gt.items[i + 1]), AskedPath)}

\* C17 as stated: collect_under(group) returns, each exactly once, the
\* indices of the entries tagged with the path of the group or with a
\* sub-path of it; under the root it returns every index of [0, N).
C17_CollectUnder ==
    gt.out.tree # "none" =>
       /\ \A k, l \in 1..Len(gt.out.idxs) : gt.out.idxs[k] = gt.out.idxs[l] => k = l
       /\ {gt.out.idxs[k] : k \in 1..Len(gt.out.idxs)} = IndicesUnder

\* The group nodes of the Treeview that hold the row of word i.
PaneParents(i) ==
    {k \in DOMAIN gt.kids : k # <<>> /\ Contains(gt.kids[k], Wid(i))}

\* C20 as stated: rebuild completes for every genre string (empty segments,
\* white space around the path) and puts every entry under exactly one group
\* node, in the Treeview and in the LeftPanel.
C20_RebuildTotal ==
    /\ ~gt.raised
    /\ gt.next = Len(gt.items) =>
          \A i \in 0..(Len(gt.items) - 1) : Cardinality(PaneParents(i)) = 1
    /\ \E lp \in {Rebuild(gt.items)} :
          \A i \in 0..(Len(gt.items) - 1) :
             Cardinality({g \in DOMAIN lp.genre_to_words :
                             Contains(lp.genre_to_words[g], Wid(i))}) = 1

(***************************************************************************)
(* Properties of the session as a whole.                                    *)
(***************************************************************************)
\* C21 as stated: in every reachable state current_index is -1 or an index
\* of the collection, and the current word the controller holds, and the
\* word the right pane displays, is the entry stored at current_index.
C21_CurrentIsStored ==
    /\ current_index = -1 \/ InRange(Cur, current_index)
    /\ current_word.some =>
          /\ InRange(Cur, current_index)
          /\ current_word = Some(words[current_index + 1])
    /\ right_word.kind = "entry" =>
          /\ InRange(Cur, current_index)
          /\ right_word \in {WordDisplay(words[current_index + 1]),
                             Shown("entry", TextOf(words[current_index + 1].word))}

\* The texts of the runs of a run list, put together in order.
RECURSIVE RunsText(_)
RunsText(runs) ==
    IF runs = <<>> THEN <<>>
    ELSE (IF IsStr(Head(runs).text) THEN Head(runs).text.v ELSE <<>>)
         \o RunsText(Tail(runs))

\* The runs of an entry spell its plain strings.
RunsSpellText(it) ==
    /\ IsList(it.word_runs) => RunsText(it.word_runs.v) = TextOf(it.word)
    /\ IsList(it.meaning_runs) => RunsText(it.meaning_runs.v) = TextOf(it.meaning)

\* C22 as stated: the entry an add or an edit has just stored from the
\* dialog has runs whose texts, put together, are its word (its meaning).
C22_RunsSpellText ==
    /\ last_op.op = "add" => RunsSpellText(words[Len(words)])
    /\ last_op.op \in {"tree_edit", "list_edit"} =>
          RunsSpellText(words[last_op.arg[1] + 1])

\* An add, an edit or a delete has just completed.
ChangeJustDone == last_op.op \in {"add", "tree_edit", "list_edit", "delete"}

GenreIndex(lp) ==
    [genre_order |-> lp.genre_order, genre_to_words |-> lp.genre_to_words,
     word_to_genre |-> lp.word_to_genre, rows |-> lp.rows]

\* C24: a step of select, next, prev or reveal (and of the idle callbacks)
\* leaves the word collection, the genre index and the files as they are;
\* a step that changes one of them is an add, an edit or a delete.
C24_NavigationFrame ==
    [][ /\ last_op'.op \in {"click", "click_suspended", "select", "next", "prev",
                            "reveal", "idle"}
           => /\ words' = words
              /\ GenreIndex(left') = GenreIndex(left)
              /\ fs' = fs
        /\ (words' # words \/ GenreIndex(left') # GenreIndex(left) \/ fs' # fs)
           => last_op'.op \in {"add", "tree_edit", "list_edit", "delete"} ]_vars

\* next() has moved the cursor of a session that changed its list before:
\* the file still is the collection.
C24_Witness ==
    /\ last_op.op = "next"
    /\ changes >= 1
    /\ Len(ActiveRows) >= 2
    /\ cursor_in_parent # last_op.arg[1]
    /\ fs.target = File(Dump(WordsValue(words)))

(***************************************************************************)
(* Properties of the order of the groups and of their members.              *)
(***************************************************************************)
\* The members of the active group as rebuild listed them (none when the
\* active group is unset or is no group of the index).
ActiveMembers ==
    IF IsGid(active_parent) /\ Tail(active_parent) \in DOMAIN left.genre_to_words
    THEN left.genre_to_words[Tail(active_parent)] ELSE <<>>

\* C25: the members of every group are listed by ascending position in the
\* collection, whatever their words are; the rows next() walks are the
\* members of the active group in that order, and a next() that does not
\* wrap goes from a member to the one listed after it.
C25_MembersInListOrder ==
    /\ \A g \in DOMAIN left.genre_to_words :
          \A p, q \in 1..Len(left.genre_to_words[g]) :
             p < q => WidIndex(left.genre_to_words[g][p])
                         < WidIndex(left.genre_to_words[g][q])
    /\ ActiveRows = ActiveMembers
    /\ ( /\ last_op.op = "next"
         /\ last_op.arg[1] \in 0..(Len(ActiveMembers) - 2) )
          => /\ cursor_in_parent = last_op.arg[1] + 1
             /\ current_index = WidIndex(ActiveMembers[last_op.arg[1] + 2])
             /\ current_index > WidIndex(ActiveMembers[last_op.arg[1] + 1])

\* next() has gone from a member to the one after it in a group whose list
\* order is not the order of the words: the later member has the smaller word.
C25_Witness ==
    /\ last_op.op = "next"
    /\ last_op.arg[1] \in 0..(Len(ActiveMembers) - 2)
    /\ current_index = WidIndex(ActiveMembers[cursor_in_parent + 1])
    /\ StrLess(TextOf(words[current_index + 1].word),
               TextOf(words[WidIndex(ActiveMembers[cursor_in_parent]) + 1].word))

\* C26 as stated: in the display order rebuild produces, the group of the
\* entries without a genre comes first whatever the other genres are named,
\* the named genres follow it (in lexicographic order in the LeftPanel), and
\* the group activated at startup is that first group.
C26_UncategorizedFirst ==
    /\ gt.out.tree = "adapter" =>
          \E lp \in {Rebuild(gt.items)} :
             /\ Uncategorized \in DOMAIN lp.genre_to_words
                   => /\ lp.genre_order[1] = Gid(Uncategorized)
                      /\ StartUp(gt.items, 0).active_parent = Gid(Uncategorized)
             /\ \A p, q \in 1..Len(lp.genre_order) :
                   ( /\ p < q
                     /\ lp.genre_order[p] # Gid(Uncategorized)
                     /\ lp.genre_order[q] # Gid(Uncategorized) )
                      => StrLess(Tail(lp.genre_order[p]), Tail(lp.genre_order[q]))
             /\ StartUp(gt.items, 0).active_parent = lp.genre_order[1]
    /\ gt.out.tree = "pane" => gt.kids[<<>>][1] = Gid(<<>>)

(***************************************************************************)
(* Properties of the edit dialog.                                           *)
(***************************************************************************)
\* C27 as stated: an edit whose dialog is saved as it opened on the entry
\* leaves the stored entry as it was, the colours of its runs included.
C27_EditAsIs ==
    [][ ( /\ last_op'.op = "tree_edit"
          /\ InRange(Cur, last_op'.arg[1])
          /\ last_op'.arg[2] = SubmitItem(DialogFor(words[last_op'.arg[1] + 1])) )
           => words' = words ]_vars

(***************************************************************************)
(* Properties of the windows working side by side.                          *)
(***************************************************************************)
\* C28 as stated: whenever the event queue has gone idle (no idle callback
\* is pending, the suspension of selection events is lifted) and the
\* controller has a current entry, the highlighted row of the left panel is
\* the row of current_index.
C28_HighlightIsCurrent ==
    ( /\ idle = {}
      /\ ~suspend_select
      /\ current_word.some
      /\ InRange(Cur, current_index) )
       => left.sel = Wid(current_index)

\* The rows an edit or a delete of the list window is carried out on.
RowsHit(op) == IF op.op = "list_edit" THEN {op.arg[1]} ELSE op.arg

\* C29: when an edit or a delete is carried out on rows of an open list
\* window, each of these rows shows the word, the meaning and the genre of the
\* entry that words holds at the row's position at that moment, so the
\* operation changes or removes the entry the row shows; also after the list
\* was changed from the main window or from another list window.
C29_RowDenotesEntry ==
    [][ ( /\ last_op'.op \in {"list_edit", "delete"}
          /\ last_op'.win = 1 )
           => \A i \in RowsHit(last_op') :
                 /\ i < Len(words)
                 /\ listed.rows[i + 1] = Refresh(words).rows[i + 1] ]_vars

(***************************************************************************)
(* Properties across sessions                                             *)
(***************************************************************************)
\* C30: when the window is closed (on_close saves words, and the save works)
\* and the program is started again, the new session starts with the list
\* the closed session held, in the sanitized form load() gives it; also
\* when that list is empty.
C30_NextSessionStartsWithHeld ==
    Main(Load(SaveAll(fs, words), TRUE, TRUE).out.value) = Sanitized(words)
====
